---- MODULE Spec2Model ----
(***************************************************************************)
(* A model of HttpApi (src/unnamed/part_000): the path builder makePath,   *)
(* the single-key loader behind get, the keyed bulk loader built by        *)
(* createLoader, the two connection strategies and the mutation verbs;     *)
(* and of createNodeType (src/src/index.ts): the per-context resource      *)
(* cache and the node resolver.                                            *)
(*                                                                         *)
(* Strings are sequences of one-character strings, so that splitting,      *)
(* parsing and escaping are computed rather than assumed.  A JavaScript    *)
(* object is a sequence of entries [k, v] with distinct keys, in insertion *)
(* order (all keys used here are non-numeric, for which JavaScript keeps   *)
(* insertion order).                                                       *)
(***************************************************************************)
EXTENDS Integers, Sequences, FiniteSets, TLC

(***************************************************************************)
(* Bounds of the model.                                                    *)
(***************************************************************************)
\* how many get calls one behaviour makes
MaxCalls == 3
\* how many load calls one behaviour makes on the keyed bulk loader
MaxLoads == 3
\* how many connection calls one behaviour makes
MaxConnCalls == 2
\* how many get or load calls one behaviour makes under the fair scheduling
MaxSettleLoads == 2
\* how many getResource and node resolver calls one behaviour makes
MaxNodeCalls == 3

(***************************************************************************)
(* Program constants.                                                      *)
(***************************************************************************)
\* numKeysPerChunk = 25
DefaultKeysPerChunk == 25

(***************************************************************************)
(* Strings.                                                                *)
(***************************************************************************)
RECURSIVE IndexOf(_, _, _)
\* the first index >= from at which character c occurs in s, or 0
IndexOf(s, c, from) ==
  IF from > Len(s) THEN 0
  ELSE IF s[from] = c THEN from
  ELSE IndexOf(s, c, from + 1)

RECURSIVE Split(_, _)
\* String.prototype.split(c): every piece between occurrences of c
Split(s, c) ==
  LET i == IndexOf(s, c, 1)
  IN  IF i = 0 THEN <<s>>
      ELSE <<SubSeq(s, 1, i - 1)>> \o Split(SubSeq(s, i + 1, Len(s)), c)

RECURSIVE Join(_, _)
\* Array.prototype.join(sep)
Join(parts, sep) ==
  IF parts = <<>> THEN <<>>
  ELSE IF Len(parts) = 1 THEN parts[1]
  ELSE parts[1] \o sep \o Join(Tail(parts), sep)

\* characters querystring.escape leaves alone are letters, digits and -_.!~*'()
\* the characters of the model that it percent-encodes:
EscapeCode(c) ==
  CASE c = "?" -> <<"%", "3", "F">>
    [] c = "=" -> <<"%", "3", "D">>
    [] c = "&" -> <<"%", "2", "6">>
    [] c = "/" -> <<"%", "2", "F">>
    [] c = "%" -> <<"%", "2", "5">>
    [] OTHER   -> <<c>>

RECURSIVE Escape(_)
\* querystring.escape
Escape(s) ==
  IF s = <<>> THEN <<>> ELSE EscapeCode(Head(s)) \o Escape(Tail(s))

\* the character a percent triple decodes to, or "" when the model has none
UnescapeCode(t) ==
  CASE t = <<"%", "3", "F">> -> "?"
    [] t = <<"%", "3", "D">> -> "="
    [] t = <<"%", "2", "6">> -> "&"
    [] t = <<"%", "2", "F">> -> "/"
    [] t = <<"%", "2", "5">> -> "%"
    [] OTHER -> ""

RECURSIVE Unescape(_)
\* querystring.unescape: decodes percent triples, leaves the rest alone
Unescape(s) ==
  IF s = <<>> THEN <<>>
  ELSE IF Len(s) >= 3 /\ UnescapeCode(SubSeq(s, 1, 3)) # ""
       THEN <<UnescapeCode(SubSeq(s, 1, 3))>> \o Unescape(SubSeq(s, 4, Len(s)))
       ELSE <<Head(s)>> \o Unescape(Tail(s))

(***************************************************************************)
(* Values of an argument mapping: a string, an array of strings, or        *)
(* undefined.                                                              *)
(***************************************************************************)
Str(s) == [kind |-> "str", items |-> <<s>>]
Arr(a) == [kind |-> "arr", items |-> a]
Undef  == [kind |-> "undef", items |-> <<>>]

Entry(k, v) == [k |-> k, v |-> v]

\* the keys of an object, in order
KeysOf(obj) == [i \in 1..Len(obj) |-> obj[i].k]

\* the position of key k in obj, or 0
RECURSIVE KeyIndex(_, _, _)
KeyIndex(obj, k, from) ==
  IF from > Len(obj) THEN 0
  ELSE IF obj[from].k = k THEN from
  ELSE KeyIndex(obj, k, from + 1)

\* obj[k] = v: an existing key keeps its position, a new key goes last
SetKey(obj, k, v) ==
  LET i == KeyIndex(obj, k, 1)
  IN  IF i = 0 THEN Append(obj, Entry(k, v))
      ELSE [obj EXCEPT ![i] = Entry(k, v)]

(***************************************************************************)
(* The query-string codec (qs, line 54: node's querystring).                *)
(***************************************************************************)
\* addKeyValue of querystring.parse: a repeated key collects its values in an array
AddKeyValue(obj, k, v) ==
  LET i == KeyIndex(obj, k, 1)
  IN  IF i = 0 THEN Append(obj, Entry(k, Str(v)))
      ELSE [obj EXCEPT ![i] = Entry(k, Arr(Append(obj[i].v.items, v)))]

RECURSIVE ParseSegments(_, _)
\* the segments between '&', left to right: an empty segment is skipped, a
\* segment is cut at its first '=', key and value are unescaped
ParseSegments(segs, obj) ==
  IF segs = <<>> THEN obj
  ELSE LET seg == Head(segs)
           e   == IndexOf(seg, "=", 1)
           k   == IF e = 0 THEN seg ELSE SubSeq(seg, 1, e - 1)
           v   == IF e = 0 THEN <<>> ELSE SubSeq(seg, e + 1, Len(seg))
       IN  IF seg = <<>> THEN ParseSegments(Tail(segs), obj)
           ELSE ParseSegments(Tail(segs), AddKeyValue(obj, Unescape(k), Unescape(v)))

\* qs.parse(query)
Parse(query) == ParseSegments(Split(query, "&"), <<>>)

\* the key=value segments one entry serializes to: one per element of an array,
\* an empty value for undefined
StringifyEntry(e) ==
  IF e.v.kind = "undef" THEN <<Escape(e.k) \o <<"=">>>>
  ELSE [i \in 1..Len(e.v.items) |-> Escape(e.k) \o <<"=">> \o Escape(e.v.items[i])]

RECURSIVE StringifySegments(_)
\* the segments of every entry, in the order of the object's keys
StringifySegments(obj) ==
  IF obj = <<>> THEN <<>>
  ELSE StringifyEntry(Head(obj)) \o StringifySegments(Tail(obj))

\* qs.stringify(obj)
Stringify(obj) == Join(StringifySegments(obj), <<"&">>)

RECURSIVE Spread_DropsLast(_, _)
\* a merge loop that stops one entry early
Spread_DropsLast(query, args) ==
  IF Len(args) <= 1 THEN query
  ELSE Spread_DropsLast(SetKey(query, Head(args).k, Head(args).v), Tail(args))

RECURSIVE Spread(_, _)
\* { ...query, ...args }: the entries of args assigned over those of query
Spread(query, args) ==
  IF args = <<>> THEN query
  ELSE Spread(SetKey(query, Head(args).k, Head(args).v), Tail(args))

(***************************************************************************)
(* makePath (lines 163-179).  The optional args parameter is               *)
(* [present |-> FALSE] when absent (undefined or null).                    *)
(***************************************************************************)
NoArgs == [present |-> FALSE, entries |-> <<>>]
Args(entries) == [present |-> TRUE, entries |-> entries]

\* const [pathBase, searchBase] = path.split('?'): the first two pieces;
\* searchBase is undefined (here: absent) when there is no '?'
PathBase(path) == Split(path, "?")[1]
HasSearchBase(path) == Len(Split(path, "?")) >= 2
SearchBase(path) == Split(path, "?")[2]

\* searchBase ? this.qs.parse(searchBase) : null; spreading null adds nothing
Query(path) ==
  IF HasSearchBase(path) /\ SearchBase(path) # <<>>
  THEN Parse(SearchBase(path))
  ELSE <<>>

makePath(path, args) ==
  IF ~args.present THEN path
  ELSE LET search == Stringify(Spread(Query(path), args.entries))
       IN  IF search = <<>> THEN PathBase(path)
           ELSE PathBase(path) \o <<"?">> \o search

(***************************************************************************)
(* State.                                                                  *)
(***************************************************************************)
VARIABLES
  pathCalls,  \* the makePath calls made so far: [path, args, result], in order
  promises,   \* the promises the single-key loader has created: [st, val]
  cache,      \* the loader's promise cache: canonical path -> promise
  queue,      \* the keys of the window being collected: [key, pid], in order
  windows,    \* the dispatched windows: [keys, reqs, delivered], in order
  calls,      \* the get calls made so far: [key, pid, epoch], in order
  requestLog, \* the transport requests made so far: [method, url, window]
  numKeysPerChunk, \* the field numKeysPerChunk of the HttpApi instance
  bPromises,  \* the promises the keyed bulk loader has created: [st, list, err]
  bCache,     \* the bulk loader's promise cache: lookup key -> promise
  bQueue,     \* the lookup keys of the window being collected: [key, pid]
  bWindows,   \* the bulk loader's dispatched windows, in order
  bRequestLog, \* the bulk GETs made so far: [method, path, window]
  connCalls,  \* the connection calls made so far: [kind, path, args, after, pid, result]
  mutations,  \* the post/put/patch/delete calls made so far: [method, path, req]
  TYPES,      \* createNodeType's registry: the names of the NodeTypes constructed
  Resources,  \* the per-context resource cache: [context, name] -> instance
  instances,  \* the Resource instances constructed so far: [context, name], in order
  nodeCalls   \* the getResource and node resolver calls made so far, in order

pathVars == <<pathCalls>>
loaderVars == <<promises, cache, queue, windows, calls, requestLog>>
bulkVars == <<numKeysPerChunk, bPromises, bCache, bQueue, bWindows, bRequestLog>>
connVars == <<connCalls>>
mutationVars == <<mutations>>
nodeVars == <<TYPES, Resources, instances, nodeCalls>>
vars == <<pathCalls, promises, cache, queue, windows, calls, requestLog,
          numKeysPerChunk, bPromises, bCache, bQueue, bWindows, bRequestLog,
          connCalls, mutations, TYPES, Resources, instances, nodeCalls>>

(***************************************************************************)
(* The inputs makePath is called with.                                     *)
(***************************************************************************)
PathInputs ==
  { <<"/", "x">>,
    <<"/", "x", "?">>,
    <<"/", "x", "?", "a", "=", "1">>,
    <<"/", "x", "?", "b", "=", "2", "&", "a", "=", "1">>,
    <<"/", "x", "?", "a", "=", "1", "&", "a", "=", "2">>,
    <<"/", "x", "?", "a", "=", "1", "?", "b", "=", "2">>,
    <<"/", "x", "?", "c", "=", "%", "3", "F">> }

ArgEntries ==
  { Entry(<<"a">>, Str(<<"1">>)),
    Entry(<<"a">>, Str(<<"3">>)),
    Entry(<<"b">>, Str(<<"2">>)),
    Entry(<<"b">>, Undef),
    Entry(<<"c">>, Arr(<< <<"1">>, <<"?">> >>)) }

\* absent, empty, and every mapping of one or two entries with distinct keys,
\* in either key order
ArgInputs ==
  {NoArgs, Args(<<>>)}
    \cup {Args(<<e>>) : e \in ArgEntries}
    \cup {Args(<<e, f>>) : <<e, f>> \in {p \in ArgEntries \X ArgEntries : p[1].k # p[2].k}}

(***************************************************************************)
(* SpecPath: makePath applied to the inputs, two calls per behaviour.      *)
(***************************************************************************)
InitLoader ==
  /\ promises = <<>>
  /\ cache = <<>>
  /\ queue = <<>>
  /\ windows = <<>>
  /\ calls = <<>>
  /\ requestLog = <<>>

\* the bulk loader before any load; numKeysPerChunk is a public field, left at
\* its default here
InitBulkIdle ==
  /\ numKeysPerChunk = DefaultKeysPerChunk
  /\ bPromises = <<>>
  /\ bCache = <<>>
  /\ bQueue = <<>>
  /\ bWindows = <<>>
  /\ bRequestLog = <<>>

\* no connection call, no mutation call and no node type yet
InitConnIdle == connCalls = <<>>
InitMutationsIdle == mutations = <<>>
InitNodeIdle ==
  /\ TYPES = {}
  /\ Resources = <<>>
  /\ instances = <<>>
  /\ nodeCalls = <<>>
InitOthersIdle == InitConnIdle /\ InitMutationsIdle /\ InitNodeIdle

InitPath == pathCalls = <<>> /\ InitLoader /\ InitBulkIdle /\ InitOthersIdle

MakePathCall(path, args) ==
  /\ Len(pathCalls) < 2
  /\ pathCalls' = Append(pathCalls, [path |-> path, args |-> args, result |-> makePath(path, args)])
  /\ UNCHANGED <<loaderVars, bulkVars, connVars, mutationVars, nodeVars>>

NextPath == \E path \in PathInputs, args \in ArgInputs : MakePathCall(path, args)

SpecPath == InitPath /\ [][NextPath]_vars

(***************************************************************************)
(* Claims about makePath.                                                  *)
(***************************************************************************)
\* the entries of a mapping, as a set: two mappings hold the same key/value
\* pairs when these sets are equal
Pairs(args) == {args.entries[i] : i \in 1..Len(args.entries)}
SamePairs(a, b) == a.present /\ b.present /\ Pairs(a) = Pairs(b)

\* the '&'-separated segments of the query of a path made by makePath
SegmentsOf(p) ==
  IF IndexOf(p, "?", 1) = 0 THEN <<>>
  ELSE Split(SubSeq(p, IndexOf(p, "?", 1) + 1, Len(p)), "&")
BaseOf(p) ==
  IF IndexOf(p, "?", 1) = 0 THEN p ELSE SubSeq(p, 1, IndexOf(p, "?", 1) - 1)
Count(x, seq) == Cardinality({i \in 1..Len(seq) : seq[i] = x})
SameSegments(p, q) ==
  /\ BaseOf(p) = BaseOf(q)
  /\ Len(SegmentsOf(p)) = Len(SegmentsOf(q))
  /\ \A i \in 1..Len(SegmentsOf(p)) :
       Count(SegmentsOf(p)[i], SegmentsOf(p)) = Count(SegmentsOf(p)[i], SegmentsOf(q))

\* C9 as stated: two calls with the same path and the same key/value pairs,
\* supplied in any key order, return identical paths.
C9_OrderIndependent ==
  \A i, j \in 1..Len(pathCalls) :
    (pathCalls[i].path = pathCalls[j].path /\ SamePairs(pathCalls[i].args, pathCalls[j].args))
      => pathCalls[i].result = pathCalls[j].result

\* C9 amended: two such calls return paths with the same base and the same
\* key=value segments, each as often, possibly in a different order.
C9_SamePairsUpToOrder ==
  \A i, j \in 1..Len(pathCalls) :
    (pathCalls[i].path = pathCalls[j].path /\ SamePairs(pathCalls[i].args, pathCalls[j].args))
      => SameSegments(pathCalls[i].result, pathCalls[j].result)

\* two calls on a path that has a query already, with the same two pairs in
\* opposite key orders
C9_Witness ==
  /\ Len(pathCalls) = 2
  /\ pathCalls[1].path = pathCalls[2].path
  /\ Query(pathCalls[1].path) # <<>>
  /\ SamePairs(pathCalls[1].args, pathCalls[2].args)
  /\ Len(pathCalls[1].args.entries) = 2
  /\ pathCalls[1].args.entries # pathCalls[2].args.entries

\* what C10 describes: the path cut at its first '?', the query behind it parsed
\* and overridden by args
ClaimedBase(path) == BaseOf(path)
ClaimedQuery(path) ==
  IF IndexOf(path, "?", 1) = 0 THEN <<>>
  ELSE Parse(SubSeq(path, IndexOf(path, "?", 1) + 1, Len(path)))
ClaimedPath(path, args) ==
  IF ~args.present THEN path
  ELSE LET search == Stringify(Spread(ClaimedQuery(path), args.entries))
       IN  IF search = <<>> THEN ClaimedBase(path)
           ELSE ClaimedBase(path) \o <<"?">> \o search

\* C10 as stated: every call returns the path unchanged when args is absent,
\* and otherwise the base before the first '?' followed by the serialization of
\* the existing query overridden by args (no '?' when that is empty).
C10_PathBuilderResult ==
  \A i \in 1..Len(pathCalls) :
    pathCalls[i].result = ClaimedPath(pathCalls[i].path, pathCalls[i].args)

(***************************************************************************)
(* The single-key loader (constructor, lines 58-71) and get (lines 73-75). *)
(*                                                                         *)
(* _loader is a DataLoader over canonical paths.  load(key) returns the    *)
(* cached promise of a key it has seen, and otherwise creates a promise,   *)
(* caches it and adds the key to the window being collected; the window is *)
(* dispatched to the batch function once the running job and its promise   *)
(* jobs are done.  The batch function issues one GET per key, each wrapped *)
(* in .catch(e => e), and awaits them all; the loader then rejects a key   *)
(* whose value is an instance of Error and resolves every other key.       *)
(***************************************************************************)
\* what a request resolves with: a parsed body, or null for an empty response
Bodies == {"body1", "null"}
\* what a request rejects with: an Error object, or a value that is no Error
\* (JavaScript lets a promise reject with any value)
Failures == {"Error1", "notAnError"}

\* value instanceof Error
IsError(value) == value = "Error1"

Outcomes ==
  {[st |-> "resolved", val |-> b] : b \in Bodies}
    \cup {[st |-> "rejected", val |-> f] : f \in Failures}

Inflight == [st |-> "inflight", val |-> "none"]
Pending == [st |-> "pending", val |-> "none"]

\* the (path, args) pairs get is called with; the second and third make the
\* same canonical path
GetInputs ==
  { <<<<"/", "x">>, NoArgs>>,
    <<<<"/", "x">>, Args(<<Entry(<<"a">>, Str(<<"1">>))>>)>>,
    <<<<"/", "x", "?", "a", "=", "1">>, NoArgs>>,
    <<<<"/", "y">>, NoArgs>> }

\* _getUrl(path) (lines 230-232): the origin followed by urlJoin(apiBase, path)
\* kept as its three parts
_getUrl(path) == [origin |-> "origin", apiBase |-> "apiBase", path |-> path]

\* the loader's cache lookup in load(key)
CacheHit_Never(key) == FALSE
CacheHit(key) == key \in DOMAIN cache

\* get(path, args): this._loader.load(this.makePath(path, args))
Get(path, args) ==
  LET key == makePath(path, args)
      pid == IF CacheHit(key) THEN cache[key] ELSE Len(promises) + 1
  IN  /\ Len(calls) < MaxCalls
      /\ calls' = Append(calls, [key |-> key, pid |-> pid, epoch |-> Len(windows)])
      /\ IF CacheHit(key)
         THEN UNCHANGED <<promises, cache, queue>>
         ELSE /\ promises' = Append(promises, Pending)
              /\ cache' = [k \in DOMAIN cache \cup {key} |-> IF k = key THEN pid ELSE cache[k]]
              /\ queue' = Append(queue, [key |-> key, pid |-> pid])
      /\ UNCHANGED <<windows, requestLog, pathCalls, bulkVars, mutationVars, nodeVars>>

\* all requests of window w have settled and the loader has not yet settled
\* the window's promises
Ready(w) ==
  /\ ~windows[w].delivered
  /\ \A i \in 1..Len(windows[w].reqs) : windows[w].reqs[i].st # "inflight"

\* the keys the dispatch hands to the batch function: the whole queue
BatchOf_FirstOnly(q) == SubSeq(q, 1, 1)
BatchOf(q) == q

\* the batch function starts: paths.map(path => this.request('GET', this._getUrl(path)))
Dispatch ==
  LET batch == BatchOf(queue)
      w     == Len(windows) + 1
  IN  /\ queue # <<>>
      /\ \A v \in 1..Len(windows) : ~Ready(v)
      /\ windows' = Append(windows,
           [keys |-> batch, reqs |-> [i \in 1..Len(batch) |-> Inflight], delivered |-> FALSE])
      /\ requestLog' = requestLog \o
           [i \in 1..Len(batch) |-> [method |-> "GET", url |-> _getUrl(batch[i].key), window |-> w]]
      /\ queue' = SubSeq(queue, Len(batch) + 1, Len(queue))
      /\ UNCHANGED <<promises, cache, calls, pathCalls, bulkVars, connVars, mutationVars, nodeVars>>

\* the transport settles request i of window w; this is a new job of the event
\* loop, so every window dispatch and every promise job from the jobs before
\* it has run
RequestSettle(w, i, outcome) ==
  /\ queue = <<>>
  /\ \A v \in 1..Len(windows) : ~Ready(v)
  /\ windows[w].reqs[i].st = "inflight"
  /\ windows' = [windows EXCEPT ![w].reqs[i] = outcome]
  /\ UNCHANGED <<promises, cache, queue, calls, requestLog, pathCalls, bulkVars, connVars, mutationVars, nodeVars>>

\* .catch(e => e): the value of the wrapped request, fulfilled either way
Caught(req) == req.val

\* a loader that settles only the keys whose value is no Error
SettleKey_ErrorsStayPending(value) ==
  IF IsError(value) THEN Pending
  ELSE [st |-> "resolved", val |-> value]

\* how the loader settles a key from the value the batch function returned for it
SettleKey(value) ==
  IF IsError(value) THEN [st |-> "rejected", val |-> value]
  ELSE [st |-> "resolved", val |-> value]

\* the cache once a window's promises are settled: every entry stays
CacheAfterDeliver_DropFailed(w) ==
  [k \in {k \in DOMAIN cache :
            ~\E i \in 1..Len(windows[w].keys) :
               windows[w].keys[i].key = k /\ IsError(Caught(windows[w].reqs[i]))} |-> cache[k]]
CacheAfterDeliver(w) == cache

\* Promise.all of the wrapped requests fulfils; the loader settles each key of
\* the window with the value at the key's index
Deliver(w) ==
  /\ Ready(w)
  /\ promises' = [p \in 1..Len(promises) |->
       IF \E i \in 1..Len(windows[w].keys) : windows[w].keys[i].pid = p
       THEN LET i == CHOOSE i \in 1..Len(windows[w].keys) : windows[w].keys[i].pid = p
            IN  SettleKey(Caught(windows[w].reqs[i]))
       ELSE promises[p]]
  /\ windows' = [windows EXCEPT ![w].delivered = TRUE]
  /\ cache' = CacheAfterDeliver(w)
  /\ UNCHANGED <<queue, calls, requestLog, pathCalls, bulkVars, connVars, mutationVars, nodeVars>>

Init == InitLoader /\ pathCalls = <<>> /\ InitBulkIdle /\ InitOthersIdle

Next ==
  \/ \E in \in GetInputs : Get(in[1], in[2]) /\ UNCHANGED connVars
  \/ Dispatch
  \/ \E w \in 1..Len(windows) : \E i \in 1..Len(windows[w].reqs) : \E o \in Outcomes :
       RequestSettle(w, i, o)
  \/ \E w \in 1..Len(windows) : Deliver(w)

Spec == Init /\ [][Next]_vars

(***************************************************************************)
(* The keyed bulk loader (createLoader, lines 191-220).                    *)
(*                                                                         *)
(* A DataLoader over lookup keys whose batch function cuts the window's    *)
(* keys into chunks of numKeysPerChunk, issues one GET per chunk, awaits   *)
(* them with Promise.all, flattens the results, drops the falsy items and  *)
(* sorts the rest into one list per requested key.  When the batch         *)
(* function rejects, the loader rejects every key of the window with that  *)
(* failure and removes the keys from its cache.                            *)
(***************************************************************************)
\* the lookup keys load is called with
LookupKeys == {"k1", "k2", "k3"}

\* the chunk sizes an instance is configured with
ChunkSizes == {2, DefaultKeysPerChunk}

\* what the backend returns: items, each under the key getKey gives it, and
\* null entries
Item(key, id) == [key |-> key, id |-> id]
NullItem == Item("", "null")

\* the names every plain object inherits from Object.prototype (constructor,
\* toString, valueOf, hasOwnProperty, ...): itemsByKey = {} has them all
ObjectPrototypeKeys == {"constructor"}

\* the results of one bulk GET: a list (between them the lists hold two items
\* of k1, an item of k2, a null entry, an item of a key nobody asked for and
\* an item whose key is a name of Object.prototype), no body, or a failure
ChunkBodies ==
  { <<Item("k1", "a1")>>,
    <<Item("k1", "a2"), NullItem, Item("k2", "b1"), Item("k9", "z1")>>,
    <<Item("constructor", "c1")>> }

ChunkOutcomes ==
  {[st |-> "resolved", isNull |-> FALSE, body |-> b, err |-> "none"] : b \in ChunkBodies}
    \cup {[st |-> "resolved", isNull |-> TRUE, body |-> <<>>, err |-> "none"]}
    \cup {[st |-> "rejected", isNull |-> FALSE, body |-> <<>>, err |-> e] : e \in {"Error1", "Error2"}}

ChunkInflight == [st |-> "inflight", isNull |-> FALSE, body |-> <<>>, err |-> "none"]
BulkPending == [st |-> "pending", list |-> <<>>, err |-> "none"]

RECURSIVE Chunk_DropsRemainder(_, _)
\* chunking that keeps only the full chunks
Chunk_DropsRemainder(keys, size) ==
  IF Len(keys) < size \/ size < 1 THEN <<>>
  ELSE <<SubSeq(keys, 1, size)>> \o Chunk_DropsRemainder(SubSeq(keys, size + 1, Len(keys)), size)

RECURSIVE Chunk(_, _)
\* lodash chunk(keys, size): slices of size keys, the last one shorter
Chunk(keys, size) ==
  IF keys = <<>> \/ size < 1 THEN <<>>
  ELSE IF Len(keys) <= size THEN <<keys>>
  ELSE <<SubSeq(keys, 1, size)>> \o Chunk(SubSeq(keys, size + 1, Len(keys)), size)

\* getPath(chunkKeys): the path of the bulk GET, a function of the chunk's keys
getPath(chunkKeys) == [bulk |-> chunkKeys]

\* loader.load(key) on the loader createLoader returned
BulkLoad(key) ==
  LET pid == Len(bPromises) + 1
  IN  /\ Len(bPromises) < MaxLoads
      /\ key \notin DOMAIN bCache
      /\ bPromises' = Append(bPromises, BulkPending)
      /\ bCache' = [k \in DOMAIN bCache \cup {key} |-> IF k = key THEN pid ELSE bCache[k]]
      /\ bQueue' = Append(bQueue, [key |-> key, pid |-> pid])
      /\ UNCHANGED <<numKeysPerChunk, bWindows, bRequestLog, pathVars, loaderVars,
                   connVars, mutationVars, nodeVars>>

\* Promise.all has settled and the loader has not yet settled the window's keys
BulkReady(w) == ~bWindows[w].delivered /\ bWindows[w].all.st # "pending"

\* the batch function starts: one GET per chunk, all issued before it awaits
BulkDispatch ==
  LET keys   == [i \in 1..Len(bQueue) |-> bQueue[i].key]
      chunks == Chunk(keys, numKeysPerChunk)
      w      == Len(bWindows) + 1
  IN  /\ bQueue # <<>>
      /\ \A v \in 1..Len(bWindows) : ~BulkReady(v)
      /\ bWindows' = Append(bWindows,
           [keys |-> bQueue,
            reqs |-> [c \in 1..Len(chunks) |-> ChunkInflight],
            order |-> <<>>,
            all |-> [st |-> "pending", err |-> "none"],
            delivered |-> FALSE])
      /\ bRequestLog' = bRequestLog \o
           [c \in 1..Len(chunks) |-> [method |-> "GET", path |-> getPath(chunks[c]), window |-> w]]
      /\ bQueue' = <<>>
      /\ UNCHANGED <<numKeysPerChunk, bPromises, bCache, pathVars, loaderVars,
                   connVars, mutationVars, nodeVars>>

\* awaiting the requests one after the other, in index order
AllAfter_AwaitsInIndexOrder(all, reqs, outcome) ==
  IF all.st # "pending" \/ \E c \in 1..Len(reqs) : reqs[c].st = "inflight" THEN all
  ELSE IF \A c \in 1..Len(reqs) : reqs[c].st = "resolved"
       THEN [st |-> "fulfilled", err |-> "none"]
       ELSE [st |-> "rejected",
             err |-> reqs[CHOOSE c \in 1..Len(reqs) :
                            /\ reqs[c].st = "rejected"
                            /\ \A d \in 1..(c - 1) : reqs[d].st # "rejected"].err]
\* Promise.all after one more request settled: it rejects with the first
\* rejection, fulfils once every request has resolved, and never changes again
AllAfter(all, reqs, outcome) ==
  IF all.st # "pending" THEN all
  ELSE IF outcome.st = "rejected" THEN [st |-> "rejected", err |-> outcome.err]
  ELSE IF \A c \in 1..Len(reqs) : reqs[c].st = "resolved"
       THEN [st |-> "fulfilled", err |-> "none"]
       ELSE all

\* the transport settles the GET of chunk c of window w; this is a new job of
\* the event loop, so every window dispatch and every promise job from the
\* jobs before it has run
ChunkSettle(w, c, outcome) ==
  LET reqs == [bWindows[w].reqs EXCEPT ![c] = outcome]
  IN  /\ bQueue = <<>>
      /\ \A v \in 1..Len(bWindows) : ~BulkReady(v)
      /\ bWindows[w].reqs[c].st = "inflight"
      /\ bWindows' = [bWindows EXCEPT
           ![w].reqs = reqs,
           ![w].order = Append(@, c),
           ![w].all = AllAfter(@, reqs, outcome)]
      /\ UNCHANGED <<numKeysPerChunk, bPromises, bCache, bQueue, bRequestLog, pathVars, loaderVars,
                   connVars, mutationVars, nodeVars>>

RECURSIVE Flatten(_)
\* lodash flatten(chunkedItems): the elements of each array, in order; a null
\* result stays one null entry
Flatten(chunked) ==
  IF chunked = <<>> THEN <<>>
  ELSE (IF Head(chunked).isNull THEN <<NullItem>> ELSE Head(chunked).body)
         \o Flatten(Tail(chunked))

\* chunkedItems: what Promise.all fulfils with, the result of chunk c at index c
ChunkedItems_ByCompletion(w) == [n \in 1..Len(bWindows[w].order) |-> bWindows[w].reqs[bWindows[w].order[n]]]
ChunkedItems(w) == bWindows[w].reqs

\* .filter(item => !!item)
Truthy(items) == SelectSeq(items, LAMBDA it : it # NullItem)

\* getKey(item)
getKey(item) == item.key

\* itemsByKey[key] for the plain object itemsByKey: its own list, else what
\* Object.prototype has under that name, else undefined
Lookup(itemsByKey, key) ==
  IF key \in DOMAIN itemsByKey THEN "own"
  ELSE IF key \in ObjectPrototypeKeys THEN "inherited"
  ELSE "undefined"

RECURSIVE Demux(_, _)
\* items.forEach: an item goes to the list found under its key; what is found
\* for an inherited name is truthy and has no push, which throws a TypeError
Demux(items, itemsByKey) ==
  IF items = <<>> THEN [threw |-> FALSE, lists |-> itemsByKey]
  ELSE LET key == getKey(Head(items))
           at  == Lookup(itemsByKey, key)
       IN  IF at = "own"
           THEN Demux(Tail(items), [itemsByKey EXCEPT ![key] = Append(@, Head(items))])
           ELSE IF at = "inherited"
           THEN [threw |-> TRUE, lists |-> itemsByKey]
           ELSE Demux(Tail(items), itemsByKey)

\* the batch function after the await: keys.forEach sets an empty list for
\* every key, then the items are sorted in
BatchResult(w) ==
  LET keys == {bWindows[w].keys[i].key : i \in 1..Len(bWindows[w].keys)}
  IN  Demux(Truthy(Flatten(ChunkedItems(w))), [k \in keys |-> <<>>])

\* how the loader settles the key at position i of window w
BulkSettle(w, i) ==
  IF bWindows[w].all.st = "rejected"
  THEN [st |-> "rejected", list |-> <<>>, err |-> bWindows[w].all.err]
  ELSE IF BatchResult(w).threw
  THEN [st |-> "rejected", list |-> <<>>, err |-> "TypeError"]
  ELSE [st |-> "resolved", list |-> BatchResult(w).lists[bWindows[w].keys[i].key], err |-> "none"]

\* the batch function has returned or thrown: the loader settles every key of
\* the window, and forgets the keys of a batch that failed
BulkDeliver(w) ==
  LET failed == bWindows[w].all.st = "rejected" \/ BatchResult(w).threw
      keys   == {bWindows[w].keys[i].key : i \in 1..Len(bWindows[w].keys)}
  IN  /\ BulkReady(w)
      /\ bPromises' = [p \in 1..Len(bPromises) |->
           IF \E i \in 1..Len(bWindows[w].keys) : bWindows[w].keys[i].pid = p
           THEN BulkSettle(w, CHOOSE i \in 1..Len(bWindows[w].keys) : bWindows[w].keys[i].pid = p)
           ELSE bPromises[p]]
      /\ bCache' = IF failed THEN [k \in DOMAIN bCache \ keys |-> bCache[k]] ELSE bCache
      /\ bWindows' = [bWindows EXCEPT ![w].delivered = TRUE]
      /\ UNCHANGED <<numKeysPerChunk, bQueue, bRequestLog, pathVars, loaderVars,
                   connVars, mutationVars, nodeVars>>

InitBulk ==
  /\ numKeysPerChunk \in ChunkSizes
  /\ bPromises = <<>>
  /\ bCache = <<>>
  /\ bQueue = <<>>
  /\ bWindows = <<>>
  /\ bRequestLog = <<>>
  /\ pathCalls = <<>>
  /\ InitLoader
  /\ InitOthersIdle

NextBulk ==
  \/ \E key \in LookupKeys : BulkLoad(key)
  \/ BulkDispatch
  \/ \E w \in 1..Len(bWindows) : \E c \in 1..Len(bWindows[w].reqs) : \E o \in ChunkOutcomes :
       ChunkSettle(w, c, o)
  \/ \E w \in 1..Len(bWindows) : BulkDeliver(w)

SpecBulk == InitBulk /\ [][NextBulk]_vars

(***************************************************************************)
(* Claims about the single-key loader.                                     *)
(***************************************************************************)
\* the GETs of window w for the canonical path key
RequestsFor(key, w) ==
  {r \in 1..Len(requestLog) :
     /\ requestLog[r].method = "GET"
     /\ requestLog[r].url = _getUrl(key)
     /\ requestLog[r].window = w}

\* the places a key is waiting or was dispatched: <<w, i>> for position i of
\* window w, <<0, i>> for position i of the queue
Places(key) ==
  LET dispatched == UNION {{<<w, i>> : i \in 1..Len(windows[w].keys)} : w \in 1..Len(windows)}
      waiting    == {<<0, i>> : i \in 1..Len(queue)}
  IN  {pl \in dispatched : windows[pl[1]].keys[pl[2]].key = key}
        \cup {pl \in waiting : queue[pl[2]].key = key}

\* C1: in every window, at most one GET is issued for a canonical path, however
\* many get calls asked for it while the window was collected, and once the
\* window is delivered each of those calls holds a promise settled with the
\* value that one request ended with.
C1_SingleKeyDedup ==
  \A w \in 1..Len(windows) : \A c \in 1..Len(calls) :
    calls[c].epoch = w - 1 =>
      /\ Cardinality(RequestsFor(calls[c].key, w)) <= 1
      /\ \A pl \in Places(calls[c].key) :
           (pl[1] = w /\ windows[w].delivered) =>
             /\ promises[calls[c].pid].st # "pending"
             /\ promises[calls[c].pid].val = windows[w].reqs[pl[2]].val

\* a delivered window of two paths, one of them asked for twice while the
\* window was collected
C1_Witness ==
  \E w \in 1..Len(windows) : \E c, d \in 1..Len(calls) :
    /\ windows[w].delivered
    /\ Len(windows[w].keys) = 2
    /\ c # d
    /\ calls[c].key = calls[d].key
    /\ calls[c].epoch = w - 1
    /\ calls[d].epoch = w - 1
    /\ Cardinality(RequestsFor(calls[c].key, w)) = 1

\* C2 as stated: in a delivered window, the promise of a path whose request
\* rejected is rejected with the same failure, whatever that failure is, and
\* the promise of a path whose request resolved is resolved with its value.
C2_FailureIsolation ==
  \A w \in 1..Len(windows) : \A i \in 1..Len(windows[w].keys) :
    windows[w].delivered =>
      promises[windows[w].keys[i].pid] =
        [st |-> windows[w].reqs[i].st, val |-> windows[w].reqs[i].val]

\* C7: the key of every get call is in exactly one place; a call that finds its
\* key uncached puts it in the window being collected, which is the next one
\* dispatched (window epoch + 1), and a key found in an earlier window was put
\* there by an earlier call made before that window was dispatched.
C7_TickScopedWindows ==
  \A c \in 1..Len(calls) :
    /\ Cardinality(Places(calls[c].key)) = 1
    /\ \A pl \in Places(calls[c].key) :
         \/ pl[1] = 0 /\ calls[c].epoch = Len(windows)
         \/ pl[1] = calls[c].epoch + 1
         \/ /\ pl[1] >= 1
            /\ pl[1] <= calls[c].epoch
            /\ \E d \in 1..(c - 1) :
                 calls[d].key = calls[c].key /\ calls[d].epoch = pl[1] - 1

\* two paths collected in the first window, and a call made after that window
\* was dispatched whose path is in the second window
C7_Witness ==
  /\ Len(windows) = 2
  /\ Len(windows[1].keys) = 2
  /\ \E c \in 1..Len(calls) :
       calls[c].epoch = 1 /\ windows[2].keys[1].key = calls[c].key

\* C8: over the whole behaviour at most one GET is issued per canonical path,
\* all get calls of a path hold the same promise, and once the path's window is
\* delivered that promise is settled with the value the one request ended with.
C8_LifetimeMemoization ==
  \A c \in 1..Len(calls) :
    /\ Cardinality({r \in 1..Len(requestLog) :
          requestLog[r].method = "GET" /\ requestLog[r].url = _getUrl(calls[c].key)}) <= 1
    /\ \A d \in 1..Len(calls) : calls[d].key = calls[c].key => calls[d].pid = calls[c].pid
    /\ \A pl \in Places(calls[c].key) :
         (pl[1] >= 1 /\ windows[pl[1]].delivered) =>
           /\ promises[calls[c].pid].st # "pending"
           /\ promises[calls[c].pid].val = windows[pl[1]].reqs[pl[2]].val

\* a path whose request failed with an Error, asked for again after its window
\* was delivered: the second call holds the rejected promise and no GET is added
C8_Witness ==
  \E c, d \in 1..Len(calls) :
    /\ c < d
    /\ calls[c].key = calls[d].key
    /\ calls[c].epoch < calls[d].epoch
    /\ windows[calls[c].epoch + 1].delivered
    /\ promises[calls[d].pid].st = "rejected"
    /\ Len(windows) = calls[d].epoch
    /\ Cardinality({r \in 1..Len(requestLog) : requestLog[r].url = _getUrl(calls[c].key)}) = 1

(***************************************************************************)
(* Claims about the keyed bulk loader.                                     *)
(***************************************************************************)
\* the bulk GETs of window w, in the order they were issued
WindowRequests(w) == SelectSeq(bRequestLog, LAMBDA r : r.window = w)

\* the keys of window w, in order
WindowKeys(w) == [i \in 1..Len(bWindows[w].keys) |-> bWindows[w].keys[i].key]

\* the promise of the key at position i of window w
PromiseAt(w, i) == bPromises[bWindows[w].keys[i].pid]

\* the chunks whose GET named key k
ChunksOf(w, k) ==
  {c \in 1..Len(WindowRequests(w)) :
     \E n \in 1..Len(WindowRequests(w)[c].path.bulk) : WindowRequests(w)[c].path.bulk[n] = k}

RECURSIVE ItemsOfKey(_, _)
\* the items returned for key k: chunk after chunk, each in its own order,
\* null entries and null results left out
ItemsOfKey(reqs, k) ==
  IF reqs = <<>> THEN <<>>
  ELSE SelectSeq(Head(reqs).body, LAMBDA it : it # NullItem /\ it.key = k)
         \o ItemsOfKey(Tail(reqs), k)

\* the chunk whose GET rejected first
FirstRejected(w) ==
  LET n == CHOOSE n \in 1..Len(bWindows[w].order) :
             /\ bWindows[w].reqs[bWindows[w].order[n]].st = "rejected"
             /\ \A m \in 1..(n - 1) : bWindows[w].reqs[bWindows[w].order[m]].st # "rejected"
  IN  bWindows[w].order[n]

SomeRejected(w) == \E c \in 1..Len(bWindows[w].reqs) : bWindows[w].reqs[c].st = "rejected"
AllResolved(w) == \A c \in 1..Len(bWindows[w].reqs) : bWindows[w].reqs[c].st = "resolved"

\* C3 as stated: when a chunk's GET failed, exactly the keys of the failed
\* chunk reject with that failure, and every key of a chunk whose GET succeeded
\* resolves.
C3_ChunkBlastRadius ==
  \A w \in 1..Len(bWindows) :
    (bWindows[w].delivered /\ SomeRejected(w)) =>
      \A i \in 1..Len(bWindows[w].keys) : \A c \in ChunksOf(w, WindowKeys(w)[i]) :
        /\ bWindows[w].reqs[c].st = "rejected" =>
             (PromiseAt(w, i).st = "rejected" /\ PromiseAt(w, i).err = bWindows[w].reqs[c].err)
        /\ bWindows[w].reqs[c].st = "resolved" => PromiseAt(w, i).st = "resolved"

\* C3 amended: when a chunk's GET failed, every key of the batch rejects with
\* the failure of the chunk that failed first, whatever happened to its own
\* chunk; no key of the batch resolves.
C3_WholeBatchRejects ==
  \A w \in 1..Len(bWindows) :
    (bWindows[w].delivered /\ SomeRejected(w)) =>
      \A i \in 1..Len(bWindows[w].keys) :
        PromiseAt(w, i) =
          [st |-> "rejected", list |-> <<>>, err |-> bWindows[w].reqs[FirstRejected(w)].err]

\* a delivered batch of several chunks: one GET failed, another succeeded and
\* returned an item of a key of its chunk
C3_Witness ==
  \E w \in 1..Len(bWindows) : \E c, d \in 1..Len(bWindows[w].reqs) :
    /\ bWindows[w].delivered
    /\ bWindows[w].reqs[c].st = "rejected"
    /\ bWindows[w].reqs[d].st = "resolved"
    /\ \E i \in 1..Len(bWindows[w].keys) :
         d \in ChunksOf(w, WindowKeys(w)[i]) /\ ItemsOfKey(<<bWindows[w].reqs[d]>>, WindowKeys(w)[i]) # <<>>

\* C4 as stated: when all chunk GETs of a batch succeeded, every requested key
\* resolves with the returned non-null items of that key, in arrival order
\* (an empty list when there is none), and items of other keys are in no list.
C4_Demultiplexing ==
  \A w \in 1..Len(bWindows) :
    (bWindows[w].delivered /\ AllResolved(w)) =>
      \A i \in 1..Len(bWindows[w].keys) :
        PromiseAt(w, i) =
          [st |-> "resolved", list |-> ItemsOfKey(bWindows[w].reqs, WindowKeys(w)[i]), err |-> "none"]

\* ceil(n / s)
CeilDiv(n, s) == (n + s - 1) \div s

RECURSIVE Concat(_)
Concat(seqs) == IF seqs = <<>> THEN <<>> ELSE Head(seqs) \o Concat(Tail(seqs))

\* C5: a batch of n keys with chunk size s issues ceil(n / s) bulk GETs; the
\* chunks handed to getPath, put end to end, are the batch's keys; every chunk
\* but the last has s keys and the last has 1 to s; 60 keys with s = 25 are
\* cut into 25, 25, 10.
C5_ChunkPartition ==
  /\ \A w \in 1..Len(bWindows) :
       LET reqs == WindowRequests(w)
           n    == Len(bWindows[w].keys)
           s    == numKeysPerChunk
       IN  /\ Len(reqs) = CeilDiv(n, s)
           /\ Len(bWindows[w].reqs) = Len(reqs)
           /\ Concat([c \in 1..Len(reqs) |-> reqs[c].path.bulk]) = WindowKeys(w)
           /\ \A c \in 1..Len(reqs) :
                /\ reqs[c].method = "GET"
                /\ c < Len(reqs) => Len(reqs[c].path.bulk) = s
                /\ c = Len(reqs) => Len(reqs[c].path.bulk) \in 1..s
  /\ LET cut == Chunk([i \in 1..60 |-> i], DefaultKeysPerChunk)
     IN  [c \in 1..Len(cut) |-> Len(cut[c])] = <<25, 25, 10>>

\* a batch of three keys cut into a full chunk and a shorter last chunk
C5_Witness ==
  \E w \in 1..Len(bWindows) :
    /\ Len(bWindows[w].keys) = 3
    /\ Len(WindowRequests(w)) = 2
    /\ Len(WindowRequests(w)[2].path.bulk) = 1

\* C6: whatever the order in which the chunk GETs completed, a key that
\* resolves gets the items returned for that key, ordered by chunk and then by
\* position in the chunk's result.
C6_CompletionOrderIndependent ==
  \A w \in 1..Len(bWindows) : \A i \in 1..Len(bWindows[w].keys) :
    (bWindows[w].delivered /\ PromiseAt(w, i).st = "resolved") =>
      PromiseAt(w, i).list = ItemsOfKey(bWindows[w].reqs, WindowKeys(w)[i])

\* a delivered batch whose second chunk completed before its first, with a
\* key that got an item from each of the two chunks
C6_Witness ==
  \E w \in 1..Len(bWindows) : \E i \in 1..Len(bWindows[w].keys) :
    /\ bWindows[w].delivered
    /\ bWindows[w].order = <<2, 1>>
    /\ PromiseAt(w, i).st = "resolved"
    /\ Len(PromiseAt(w, i).list) = 2
    /\ PromiseAt(w, i).list[1] \in {bWindows[w].reqs[1].body[n] : n \in 1..Len(bWindows[w].reqs[1].body)}
    /\ PromiseAt(w, i).list[2] \in {bWindows[w].reqs[2].body[n] : n \in 1..Len(bWindows[w].reqs[2].body)}

(***************************************************************************)
(* The connection strategies: getPaginatedConnection (lines 77-119) and    *)
(* getUnpaginatedConnection (lines 121-139).  Both fetch through get, so   *)
(* through the single-key loader, and translate what the promise settles   *)
(* with.                                                                   *)
(***************************************************************************)
AfterKey == <<"a", "f", "t", "e", "r">>
FirstKey == <<"f", "i", "r", "s", "t">>
CursorKey == <<"c", "u", "r", "s", "o", "r">>
LimitKey == <<"l", "i", "m", "i", "t">>
PageSizeKey == <<"p", "a", "g", "e", "S", "i", "z", "e">>

\* PAGINATION_ARG_KEYS = Object.keys(forwardConnectionArgs)
PAGINATION_ARG_KEYS == <<AfterKey, FirstKey>>

\* args[k]: undefined for a key the mapping does not have
ValueOf(obj, k) ==
  LET i == KeyIndex(obj, k, 1)
  IN  IF i = 0 THEN Undef ELSE obj[i].v

\* the rest of the destructuring { after, first, ...args }
Rest(obj) == SelectSeq(obj, LAMBDA e : e.k # AfterKey /\ e.k # FirstKey)

\* JavaScript truthiness of an argument value: undefined and the empty string
\* are falsy, every array is truthy
ValueTruthy(v) ==
  \/ v.kind = "arr"
  \/ v.kind = "str" /\ v.items[1] # <<>>

\* What the backend answers, by name.  A result is null, a scalar, an object
\* that is no array, or an array of items; an array may carry a meta property
\* with cursors, hasNextPage and further fields (rest).
Result(kind, scalar, items, hasMeta, cursors, hasNextPage, rest) ==
  [kind |-> kind, scalar |-> scalar, items |-> items, hasMeta |-> hasMeta,
   cursors |-> cursors, hasNextPage |-> hasNextPage, rest |-> rest]

PagedBodies == {"null", "zero", "noMeta", "emptyPage", "page2", "falsyEnds"}

BackendResult(name) ==
  CASE name = "null"      -> Result("null", "none", <<>>, FALSE, <<>>, "undefined", <<>>)
    [] name = "zero"      -> Result("scalar", "0", <<>>, FALSE, <<>>, "undefined", <<>>)
    [] name = "noMeta"    -> Result("array", "none", <<"i1">>, FALSE, <<>>, "undefined", <<>>)
    [] name = "emptyPage" -> Result("array", "none", <<>>, TRUE, <<>>, "false", <<>>)
    [] name = "page2"     -> Result("array", "none", <<"i1", "i2">>, TRUE, <<"c1", "c2">>, "true", <<"total">>)
    [] name = "falsyEnds" -> Result("array", "none", <<"0", "i1", "0">>, TRUE, <<"c1", "c2", "c3">>, "undefined", <<>>)
    [] OTHER              -> Result("object", "none", <<>>, FALSE, <<>>, "undefined", <<>>)

\* what a request of a paged connection call settles with
PagedOutcomes ==
  {[st |-> "resolved", val |-> b] : b \in PagedBodies}
    \cup {[st |-> "rejected", val |-> "Error1"]}

\* JavaScript truthiness of an item: the number 0 and null are falsy
ItemTruthy(item) == item \notin {"0", "null"}

\* !items: null, undefined and the falsy scalars
Falsy_OrEmpty(items) ==
  \/ items.kind = "null"
  \/ items.kind = "scalar" /\ items.scalar \in {"0", "", "false"}
  \/ items.kind = "array" /\ items.items = <<>>
Falsy(items) ==
  \/ items.kind = "null"
  \/ items.kind = "scalar" /\ items.scalar \in {"0", "", "false"}

\* cursors[i], with JavaScript's index i
Cursor(cursors, i) == IF i + 1 \in 1..Len(cursors) THEN cursors[i + 1] ELSE "undefined"

\* items[i] ? cursors[i] : null
CursorIfItem(items, i) ==
  IF i + 1 \in 1..Len(items.items) /\ ItemTruthy(items.items[i + 1])
  THEN Cursor(items.cursors, i)
  ELSE "null"

\* !!after
hasPreviousPage_Always(afterArg) == TRUE
hasPreviousPage(afterArg) == ValueTruthy(afterArg)

\* what a connection call returns; "pending" until it has returned
ConnPending ==
  [st |-> "pending", edges |-> <<>>, startCursor |-> "none", endCursor |-> "none",
   hasPreviousPage |-> FALSE, hasNextPage |-> "none", meta |-> <<>>, err |-> "none"]
ConnNull == [ConnPending EXCEPT !.st = "null"]
ConnFailed(err) == [ConnPending EXCEPT !.st = "failed", !.err = err]

\* the code behind the await of getPaginatedConnection (lines 90-118), given the
\* after argument and what the get promise settled with
PaginatedResult(afterArg, settled) ==
  IF settled.st = "rejected" THEN ConnFailed(settled.val)
  ELSE LET items     == BackendResult(settled.val)
           lastIndex == Len(items.items) - 1
       IN  IF Falsy(items) THEN ConnNull
           ELSE IF ~items.hasMeta THEN ConnFailed("Unexpected format")
           ELSE IF items.kind # "array" THEN ConnFailed("TypeError")
           ELSE [st |-> "connection",
                 edges |-> [i \in 1..Len(items.items) |->
                              [node |-> items.items[i], cursor |-> Cursor(items.cursors, i - 1)]],
                 startCursor |-> CursorIfItem(items, 0),
                 endCursor |-> CursorIfItem(items, lastIndex),
                 hasPreviousPage |-> hasPreviousPage(afterArg),
                 hasNextPage |-> items.hasNextPage,
                 meta |-> items.rest,
                 err |-> "none"]

\* the path and the argument mappings getPaginatedConnection is called with
ConnPath == <<"/", "x">>
PagedArgInputs ==
  { <<>>,
    <<Entry(AfterKey, Str(<<"c", "1">>))>>,
    <<Entry(AfterKey, Str(<<>>))>>,
    <<Entry(<<"a">>, Str(<<"1">>)), Entry(FirstKey, Str(<<"2">>))>> }

\* getPaginatedConnection(path, args) up to its await: the get of the path made
\* from the remaining args with cursor, limit and pageSize
getPaginatedConnection(path, args) ==
  LET afterArg == ValueOf(args, AfterKey)
      firstArg == ValueOf(args, FirstKey)
      target   == makePath(path, Args(Spread(Rest(args),
                    <<Entry(CursorKey, afterArg), Entry(LimitKey, firstArg),
                      Entry(PageSizeKey, firstArg)>>)))
      pid      == IF CacheHit(target) THEN cache[target] ELSE Len(promises) + 1
  IN  /\ Len(connCalls) < MaxConnCalls
      /\ Get(target, NoArgs)
      /\ connCalls' = Append(connCalls,
           [kind |-> "paged", path |-> path, args |-> args, after |-> afterArg,
            pid |-> pid, result |-> ConnPending])

\* getPaginatedConnection resumes once the get promise has settled
PaginatedReturn(c) ==
  /\ connCalls[c].kind = "paged"
  /\ connCalls[c].result.st = "pending"
  /\ promises[connCalls[c].pid].st # "pending"
  /\ connCalls' = [connCalls EXCEPT ![c].result =
       PaginatedResult(connCalls[c].after, promises[connCalls[c].pid])]
  /\ UNCHANGED <<pathVars, loaderVars, bulkVars, mutationVars, nodeVars>>

NextPaged ==
  \/ \E args \in PagedArgInputs : getPaginatedConnection(ConnPath, args)
  \/ Dispatch
  \/ \E w \in 1..Len(windows) : \E i \in 1..Len(windows[w].reqs) : \E o \in PagedOutcomes :
       RequestSettle(w, i, o)
  \/ \E w \in 1..Len(windows) : Deliver(w)
  \/ \E c \in 1..Len(connCalls) : PaginatedReturn(c)

SpecPaged == Init /\ [][NextPaged]_vars

(***************************************************************************)
(* Claims about getPaginatedConnection, checked under SpecPaged.           *)
(***************************************************************************)
\* the paged calls that have returned after their get promise resolved, and
\* what the backend answered them
Returned(c) == connCalls[c].result.st # "pending"
Answer(c) == BackendResult(promises[connCalls[c].pid].val)
Answered(c) == Returned(c) /\ promises[connCalls[c].pid].st = "resolved"

\* C11: a paged call resolves to null when the backend answered null and to a
\* connection with zero edges when it answered an empty array carrying meta;
\* null is never turned into a connection and an empty page never into null.
C11_NullVersusEmpty ==
  \A c \in 1..Len(connCalls) :
    (connCalls[c].kind = "paged" /\ Answered(c)) =>
      /\ Answer(c).kind = "null" => connCalls[c].result.st = "null"
      /\ (Answer(c).kind = "array" /\ Answer(c).items = <<>> /\ Answer(c).hasMeta) =>
           (connCalls[c].result.st = "connection" /\ connCalls[c].result.edges = <<>>)
      /\ connCalls[c].result.st = "connection" => Answer(c).kind # "null"
      /\ connCalls[c].result.st = "null" => ~(Answer(c).kind = "array" /\ Answer(c).hasMeta)

\* one call answered null and returned null, another answered an empty page
\* and returned a connection without edges
C11_Witness ==
  \E c, d \in 1..Len(connCalls) :
    /\ Answered(c) /\ Answer(c).kind = "null" /\ connCalls[c].result.st = "null"
    /\ Answered(d) /\ Answer(d).kind = "array" /\ Answer(d).items = <<>> /\ Answer(d).hasMeta
    /\ connCalls[d].result.st = "connection"

\* C12 as stated: whenever the backend answers a paged call with a non-null
\* result that has no meta property, the call fails with the format error and
\* returns neither a connection nor null.
C12_MissingMetaIsFatal ==
  \A c \in 1..Len(connCalls) :
    (connCalls[c].kind = "paged" /\ Answered(c) /\ Answer(c).kind # "null" /\ ~Answer(c).hasMeta) =>
      (connCalls[c].result.st = "failed" /\ connCalls[c].result.err = "Unexpected format")

\* C13 as stated: startCursor and endCursor are null for a page without items;
\* for a page with items, whatever their values, startCursor is the first
\* cursor of meta.cursors and endCursor the cursor at the last item's index.
C13_StartEndCursors ==
  \A c \in 1..Len(connCalls) :
    (connCalls[c].kind = "paged" /\ connCalls[c].result.st = "connection") =>
      LET n == Len(Answer(c).items)
      IN  IF n = 0
          THEN connCalls[c].result.startCursor = "null" /\ connCalls[c].result.endCursor = "null"
          ELSE /\ connCalls[c].result.startCursor = Answer(c).cursors[1]
               /\ connCalls[c].result.endCursor = Answer(c).cursors[n]

\* the caller supplied an after cursor: a non-empty string
SuppliedAfter(args) ==
  LET i == KeyIndex(args, AfterKey, 1)
  IN  i # 0 /\ args[i].v.kind = "str" /\ args[i].v.items[1] # <<>>

\* C14: hasPreviousPage of a returned connection is true exactly when the
\* caller supplied an after cursor, and hasNextPage is the backend's
\* meta.hasNextPage, unchanged.
C14_PageFlags ==
  \A c \in 1..Len(connCalls) :
    (connCalls[c].kind = "paged" /\ connCalls[c].result.st = "connection") =>
      /\ connCalls[c].result.hasPreviousPage = SuppliedAfter(connCalls[c].args)
      /\ connCalls[c].result.hasNextPage = Answer(c).hasNextPage

\* two connections of the same page, one asked with an after cursor and one
\* without, on a backend page that has a next page
C14_Witness ==
  \E c, d \in 1..Len(connCalls) :
    /\ connCalls[c].result.st = "connection" /\ connCalls[d].result.st = "connection"
    /\ connCalls[c].kind = "paged" /\ connCalls[d].kind = "paged"
    /\ connCalls[c].result.hasPreviousPage /\ ~connCalls[d].result.hasPreviousPage
    /\ connCalls[c].result.hasNextPage = "true"

(***************************************************************************)
(* getUnpaginatedConnection (lines 121-139): the whole collection is       *)
(* fetched without the pagination keys and sliced in memory by             *)
(* connectionFromArray of graphql-relay.                                   *)
(***************************************************************************)
\* omit(args, keys) of lodash: a copy without the keys, the others in place
omit_Nothing(obj, keys) == obj
omit(obj, keys) ==
  SelectSeq(obj, LAMBDA e : ~\E n \in 1..Len(keys) : keys[n] = e.k)

RECURSIVE pick(_, _)
\* pick(args, keys) of lodash: the keys the object has, in the order of keys
pick(obj, keys) ==
  IF keys = <<>> THEN <<>>
  ELSE (IF KeyIndex(obj, Head(keys), 1) = 0 THEN <<>>
        ELSE <<Entry(Head(keys), ValueOf(obj, Head(keys)))>>)
         \o pick(obj, Tail(keys))

\* Array.isArray(items)
IsArray_OrNothing(items) == items.kind \in {"array", "null"}
IsArray(items) == items.kind = "array"

Digits == <<"0", "1", "2", "3">>
Max(a, b) == IF a >= b THEN a ELSE b
Min(a, b) == IF a <= b THEN a ELSE b

\* the number a string of one digit denotes, or -1
DigitValue(s) ==
  IF Len(s) = 1 /\ \E n \in 1..Len(Digits) : Digits[n] = s[1]
  THEN (CHOOSE n \in 1..Len(Digits) : Digits[n] = s[1]) - 1
  ELSE -1

\* offsetToCursor(offset) of graphql-relay: the encoded 'arrayconnection:' +
\* offset, written here '#' + offset
offsetToCursor(offset) == <<"#0", "#1", "#2", "#3">>[offset + 1]

\* getOffsetWithDefault(after, -1): the offset an array cursor encodes, -1 for
\* an absent cursor and for a string that is no array cursor
AfterOffset(afterArg) ==
  IF afterArg.kind = "str" /\ Len(afterArg.items[1]) = 2 /\ afterArg.items[1][1] = "#"
  THEN DigitValue(Tail(afterArg.items[1]))
  ELSE -1

\* connectionFromArray(items, { after, first }) for a first that is absent or
\* a number that is not negative
connectionFromArray(items, paginationArgs) ==
  LET afterArg    == ValueOf(paginationArgs, AfterKey)
      firstArg    == ValueOf(paginationArgs, FirstKey)
      arrayLength == Len(items)
      startOffset == Max(AfterOffset(afterArg), -1) + 1
      endOffset   == IF firstArg.kind = "str"
                     THEN Min(arrayLength, startOffset + DigitValue(firstArg.items[1]))
                     ELSE arrayLength
      slice       == SubSeq(items, startOffset + 1, endOffset)
      edges       == [k \in 1..Len(slice) |->
                        [node |-> slice[k], cursor |-> offsetToCursor(startOffset + k - 1)]]
  IN  [st |-> "connection",
       edges |-> edges,
       startCursor |-> IF edges = <<>> THEN "null" ELSE edges[1].cursor,
       endCursor |-> IF edges = <<>> THEN "null" ELSE edges[Len(edges)].cursor,
       hasPreviousPage |-> FALSE,
       hasNextPage |-> IF firstArg.kind = "str" /\ endOffset < arrayLength THEN "true" ELSE "false",
       meta |-> <<"undefined">>,   \* a Connection has no meta
       err |-> "none"]

\* the code behind the await of getUnpaginatedConnection (lines 130-138)
UnpaginatedResult(paginationArgs, settled) ==
  IF settled.st = "rejected" THEN ConnFailed(settled.val)
  ELSE LET items == BackendResult(settled.val)
       IN  IF ~IsArray(items) THEN ConnFailed("Expected array")
           ELSE [connectionFromArray(items.items, paginationArgs) EXCEPT !.meta = <<>>]

UnpagedArgInputs ==
  { <<>>,
    <<Entry(FirstKey, Str(<<"1">>))>>,
    <<Entry(AfterKey, Str(<<"#", "0">>))>>,
    <<Entry(<<"a">>, Str(<<"1">>))>>,
    <<Entry(AfterKey, Str(<<"#", "0">>)), Entry(<<"a">>, Str(<<"1">>)), Entry(FirstKey, Str(<<"1">>))>> }

UnpagedBodies == {"null", "zero", "object", "emptyPage", "page2"}
UnpagedOutcomes ==
  {[st |-> "resolved", val |-> b] : b \in UnpagedBodies}
    \cup {[st |-> "rejected", val |-> "Error1"]}

\* getUnpaginatedConnection(path, args) up to its await
getUnpaginatedConnection(path, args) ==
  LET apiArgs == omit(args, PAGINATION_ARG_KEYS)
      target  == makePath(path, Args(apiArgs))
      pid     == IF CacheHit(target) THEN cache[target] ELSE Len(promises) + 1
  IN  /\ Len(connCalls) < MaxConnCalls
      /\ Get(target, NoArgs)
      /\ connCalls' = Append(connCalls,
           [kind |-> "unpaged", path |-> path, args |-> args, after |-> ValueOf(args, AfterKey),
            pid |-> pid, result |-> ConnPending])

\* getUnpaginatedConnection resumes once the get promise has settled
UnpaginatedReturn(c) ==
  /\ connCalls[c].kind = "unpaged"
  /\ connCalls[c].result.st = "pending"
  /\ promises[connCalls[c].pid].st # "pending"
  /\ connCalls' = [connCalls EXCEPT ![c].result =
       UnpaginatedResult(pick(connCalls[c].args, PAGINATION_ARG_KEYS), promises[connCalls[c].pid])]
  /\ UNCHANGED <<pathVars, loaderVars, bulkVars, mutationVars, nodeVars>>

NextUnpaged ==
  \/ \E args \in UnpagedArgInputs : getUnpaginatedConnection(ConnPath, args)
  \/ Dispatch
  \/ \E w \in 1..Len(windows) : \E i \in 1..Len(windows[w].reqs) : \E o \in UnpagedOutcomes :
       RequestSettle(w, i, o)
  \/ \E w \in 1..Len(windows) : Deliver(w)
  \/ \E c \in 1..Len(connCalls) : UnpaginatedReturn(c)

SpecUnpaged == Init /\ [][NextUnpaged]_vars

(***************************************************************************)
(* Claims about getUnpaginatedConnection, checked under SpecUnpaged.  The  *)
(* n-th connection call makes the n-th get call.                           *)
(***************************************************************************)
\* the args of a call without after and first
WithoutPagination(args) == SelectSeq(args, LAMBDA e : e.k \notin {AfterKey, FirstKey})

\* the GETs issued for a canonical path over the whole behaviour
GetsFor(key) ==
  {r \in 1..Len(requestLog) : requestLog[r].method = "GET" /\ requestLog[r].url = _getUrl(key)}

\* C15: an unpaged call fetches the path built from its args without after and
\* first; calls that differ only in after and first hold the same promise and
\* cause at most one GET together.
C15_PaginationKeysStripped ==
  \A c \in 1..Len(connCalls) :
    connCalls[c].kind = "unpaged" =>
      /\ calls[c].key = makePath(connCalls[c].path, Args(WithoutPagination(connCalls[c].args)))
      /\ \A d \in 1..Len(connCalls) :
           (/\ connCalls[d].kind = "unpaged"
            /\ connCalls[d].path = connCalls[c].path
            /\ WithoutPagination(connCalls[d].args) = WithoutPagination(connCalls[c].args)) =>
             /\ connCalls[d].pid = connCalls[c].pid
             /\ Cardinality(GetsFor(calls[c].key)) <= 1

\* two calls with the same filter and different after and first, returned with
\* different edges from one GET
C15_Witness ==
  \E c, d \in 1..Len(connCalls) :
    /\ connCalls[c].kind = "unpaged" /\ connCalls[d].kind = "unpaged"
    /\ connCalls[c].args # connCalls[d].args
    /\ KeyIndex(connCalls[c].args, FirstKey, 1) # 0
    /\ connCalls[c].pid = connCalls[d].pid
    /\ connCalls[c].result.st = "connection" /\ connCalls[d].result.st = "connection"
    /\ connCalls[c].result.edges # connCalls[d].result.edges
    /\ Cardinality(GetsFor(calls[c].key)) = 1
    /\ Len(requestLog) = 1

MutationMethods == {"POST", "PUT", "PATCH", "DELETE"}
MutationPaths == {<<"/", "x">>}

\* the loader's cache after a mutation of path: no verb touches this._loader
CacheAfterMutation_Clears(path) == [k \in DOMAIN cache \ {path} |-> cache[k]]
CacheAfterMutation(path) == cache

\* post / put / patch / delete (path): this.request(method, this._getUrl(path), data)
Mutate(method, path) ==
  /\ Len(calls) + Len(mutations) < MaxCalls
  /\ requestLog' = Append(requestLog, [method |-> method, url |-> _getUrl(path), window |-> 0])
  /\ mutations' = Append(mutations,
       [method |-> method, path |-> path, req |-> Len(requestLog) + 1,
        callsBefore |-> Len(calls)])
  /\ cache' = CacheAfterMutation(path)
  /\ UNCHANGED <<promises, queue, windows, calls, pathVars, bulkVars, connVars, nodeVars>>

NextMutate ==
  \/ \E in \in GetInputs :
       /\ Len(calls) + Len(mutations) < MaxCalls
       /\ Get(in[1], in[2])
       /\ UNCHANGED connVars
  \/ \E method \in MutationMethods, path \in MutationPaths : Mutate(method, path)
  \/ Dispatch
  \/ \E w \in 1..Len(windows) : \E i \in 1..Len(windows[w].reqs) : \E o \in Outcomes :
       RequestSettle(w, i, o)
  \/ \E w \in 1..Len(windows) : Deliver(w)

SpecMutate == Init /\ [][NextMutate]_vars

(***************************************************************************)
(* Claims about the mutation verbs, checked under SpecMutate.              *)
(***************************************************************************)
\* the requests in the log that are no GET
NonGets == {r \in 1..Len(requestLog) : requestLog[r].method # "GET"}

\* C18: every post, put, patch and delete call has exactly one transport
\* request of its own, with its method and url and outside every loader
\* window; the loader's cache holds exactly the paths get was called with,
\* each path is fetched at most once whatever mutations came in between, and
\* a settled get promise has the value its one GET settled with.
C18_MutationsBypassLoader ==
  /\ \A m \in 1..Len(mutations) :
       /\ mutations[m].req \in NonGets
       /\ requestLog[mutations[m].req] =
            [method |-> mutations[m].method, url |-> _getUrl(mutations[m].path), window |-> 0]
       /\ \A n \in 1..Len(mutations) : mutations[n].req = mutations[m].req => n = m
  /\ Cardinality(NonGets) = Len(mutations)
  /\ DOMAIN cache = {calls[c].key : c \in 1..Len(calls)}
  /\ \A c \in 1..Len(calls) :
       /\ cache[calls[c].key] = calls[c].pid
       /\ Cardinality(GetsFor(calls[c].key)) <= 1
       /\ promises[calls[c].pid].st # "pending" =>
            \E w \in 1..Len(windows) : \E i \in 1..Len(windows[w].keys) :
              /\ windows[w].keys[i].key = calls[c].key
              /\ promises[calls[c].pid].val = windows[w].reqs[i].val

\* a path is fetched, then mutated, then got again: the second get holds the
\* value of the one GET, which was issued before the mutation's request
C18_Witness ==
  \E m \in 1..Len(mutations) : \E c \in 1..Len(calls) :
    /\ mutations[m].path = calls[c].key
    /\ mutations[m].callsBefore < c
    /\ \E r \in GetsFor(calls[c].key) : r < mutations[m].req
    /\ promises[calls[c].pid].st = "resolved"
    /\ Cardinality(GetsFor(calls[c].key)) = 1

(***************************************************************************)
(* SpecSettle: one HttpApi instance used either through get or through a   *)
(* keyed bulk loader (the two loaders share no state), under the           *)
(* scheduling the event loop gives: a collected window is dispatched, a    *)
(* settled batch is delivered, and the transport settles every request.    *)
(***************************************************************************)
NextSettle ==
  \/ /\ bPromises = <<>>
     /\ numKeysPerChunk = DefaultKeysPerChunk
     /\ \/ \E in \in GetInputs :
             /\ Len(calls) < MaxSettleLoads
             /\ Get(in[1], in[2])
             /\ UNCHANGED connVars
        \/ Dispatch
        \/ \E w \in 1..Len(windows) : \E i \in 1..Len(windows[w].reqs) : \E o \in Outcomes :
             RequestSettle(w, i, o)
        \/ \E w \in 1..Len(windows) : Deliver(w)
  \/ /\ calls = <<>>
     /\ \/ \E key \in LookupKeys : Len(bPromises) < MaxSettleLoads /\ BulkLoad(key)
        \/ BulkDispatch
        \/ \E w \in 1..Len(bWindows) : \E c \in 1..Len(bWindows[w].reqs) : \E o \in ChunkOutcomes :
             ChunkSettle(w, c, o)
        \/ \E w \in 1..Len(bWindows) : BulkDeliver(w)

\* the event loop runs every job that stays runnable, and every transport
\* request settles
FairSettle ==
  /\ WF_vars(Dispatch)
  /\ WF_vars(\E w \in 1..Len(windows) : \E i \in 1..Len(windows[w].reqs) : \E o \in Outcomes :
               RequestSettle(w, i, o))
  /\ WF_vars(\E w \in 1..Len(windows) : Deliver(w))
  /\ WF_vars(BulkDispatch)
  /\ WF_vars(\E w \in 1..Len(bWindows) : \E c \in 1..Len(bWindows[w].reqs) : \E o \in ChunkOutcomes :
               ChunkSettle(w, c, o))
  /\ WF_vars(\E w \in 1..Len(bWindows) : BulkDeliver(w))

SpecSettle == InitBulk /\ [][NextSettle]_vars /\ FairSettle

\* C17: provided every transport request settles, every promise get returned
\* and every promise the bulk loader's load returned is settled eventually, and
\* a settled promise never changes again.
C17_EveryLoadSettles ==
  /\ \A p \in 1..MaxSettleLoads :
       (p <= Len(promises)) ~> (p <= Len(promises) /\ promises[p].st # "pending")
  /\ \A p \in 1..MaxSettleLoads :
       (p <= Len(bPromises)) ~> (p <= Len(bPromises) /\ bPromises[p].st # "pending")
  /\ [][/\ \A p \in 1..Len(promises) :
             promises[p].st # "pending" => promises'[p] = promises[p]
        /\ \A p \in 1..Len(bPromises) :
             bPromises[p].st # "pending" => bPromises'[p] = bPromises[p]]_vars

\* a bulk batch of two keys whose GET failed: both promises are settled, as
\* rejected
C17_Witness ==
  \E w \in 1..Len(bWindows) :
    /\ bWindows[w].delivered
    /\ Len(bWindows[w].keys) = 2
    /\ \A i \in 1..Len(bWindows[w].keys) : bPromises[bWindows[w].keys[i].pid].st = "rejected"

(***************************************************************************)
(* createNodeType (src/src/index.ts): the registry TYPES, the per-context  *)
(* resource cache Resources with NodeType.getResource (lines 276-291), and *)
(* the resolver handed to nodeDefinitions (lines 117-128).                 *)
(*                                                                         *)
(* Resources is a WeakMap from a context to a Map from a type name to a    *)
(* Resource; it is kept here as one function on [context, name] pairs.  An *)
(* instance is the index of its construction in instances.                 *)
(***************************************************************************)
TypeNames == {<<"U">>, <<"P">>}
Contexts == {"ctx1", "ctx2"}

\* global ids by their base64-decoded text: type:id of a type that may be
\* registered, of one that never is, and with a ':' inside the local id
GlobalIds ==
  { [base64 |-> <<"U", ":", "1">>],
    [base64 |-> <<"X", ":", "1">>],
    [base64 |-> <<"P", ":", "a", ":", "b">>] }

\* fromGlobalId(globalId) of graphql-relay: the decoded text cut at its first ':'
fromGlobalId(globalId) ==
  LET unbased      == globalId.base64
      delimiterPos == IndexOf(unbased, ":", 1)
  IN  [type |-> SubSeq(unbased, 1, delimiterPos - 1),
       id   |-> SubSeq(unbased, delimiterPos + 1, Len(unbased))]

\* what get(id) of a Resource returns: the item or nothing, either as it is or
\* in a promise (HttpResource.get returns the promise of HttpApi.get;
\* getNodeValue awaits resource.get)
ResourceGetResults ==
  {[promise |-> pr, item |-> it] : pr \in BOOLEAN, it \in {"null", "item1"}}
NoGet == [promise |-> FALSE, item |-> "none"]

\* the key of the cache entry of a context and a type name
ResourceKey_NameOnly(context, name) == <<"ctx1", name>>
ResourceKey(context, name) == <<context, name>>

\* resources.get(this.name) found a Resource (an object, so truthy)
ResourceHit(context, name) == ResourceKey(context, name) \in DOMAIN Resources

\* the instance getResource returns: the cached one, or a new one
InstanceFor(context, name) ==
  IF ResourceHit(context, name) THEN Resources[ResourceKey(context, name)]
  ELSE Len(instances) + 1

\* Resources and instances once getResource(context) of the type has returned
ResourcesAfter(context, name) ==
  IF ResourceHit(context, name) THEN Resources
  ELSE [k \in DOMAIN Resources \cup {ResourceKey(context, name)} |->
          IF k = ResourceKey(context, name) THEN Len(instances) + 1 ELSE Resources[k]]
InstancesAfter(context, name) ==
  IF ResourceHit(context, name) THEN instances
  ELSE Append(instances, [context |-> context, name |-> name])

\* what the resolver returns
NodeNone == [st |-> "none", type |-> <<>>, fields |-> "none", err |-> "none"]
NodeNull == [NodeNone EXCEPT !.st = "null"]
NodeFailed(err) == [NodeNone EXCEPT !.st = "failed", !.err = err]
NodeObject(type, fields) == [NodeNone EXCEPT !.st = "object", !.type = type, !.fields = fields]

\* new NodeType({ name, ... }): TYPES.set(name, this)
NewNodeType(name) ==
  /\ name \notin TYPES
  /\ TYPES' = TYPES \cup {name}
  /\ UNCHANGED <<Resources, instances, nodeCalls, pathVars, loaderVars, bulkVars,
                 connVars, mutationVars>>

\* getResource(context) on the NodeType called name
getResource(name, context) ==
  /\ name \in TYPES
  /\ Len(nodeCalls) < MaxNodeCalls
  /\ Resources' = ResourcesAfter(context, name)
  /\ instances' = InstancesAfter(context, name)
  /\ nodeCalls' = Append(nodeCalls,
       [op |-> "getResource", type |-> name, context |-> context, registered |-> TRUE,
        globalId |-> [base64 |-> <<>>], instance |-> InstanceFor(context, name),
        got |-> NoGet, result |-> NodeNone])
  /\ UNCHANGED <<TYPES, pathVars, loaderVars, bulkVars, connVars, mutationVars>>

\* the value of `item` (line 123, no await) is what get returned: a promise is
\* an object, truthy, and has no own enumerable fields to spread
ItemIsFalsy(got) == ~got.promise /\ got.item \in {"null", "undefined"}
SpreadFields(got) == IF got.promise THEN "none" ELSE got.item

\* the resolver of nodeDefinitions, called with a global id and a context; got
\* is what the resource's get returns
NodeResolve(globalId, context, got) ==
  LET type == fromGlobalId(globalId).type
  IN  /\ Len(nodeCalls) < MaxNodeCalls
      /\ IF type \notin TYPES
         THEN /\ nodeCalls' = Append(nodeCalls,
                   [op |-> "node", type |-> type, context |-> context, registered |-> FALSE,
                    globalId |-> globalId, instance |-> 0, got |-> NoGet,
                    result |-> NodeFailed("There is no matching type")])
              /\ UNCHANGED <<Resources, instances>>
         ELSE /\ Resources' = ResourcesAfter(context, type)
              /\ instances' = InstancesAfter(context, type)
              /\ nodeCalls' = Append(nodeCalls,
                   [op |-> "node", type |-> type, context |-> context, registered |-> TRUE,
                    globalId |-> globalId, instance |-> InstanceFor(context, type), got |-> got,
                    result |-> IF ItemIsFalsy(got) THEN NodeNull
                               ELSE NodeObject(type, SpreadFields(got))])
      /\ UNCHANGED <<TYPES, pathVars, loaderVars, bulkVars, connVars, mutationVars>>

NextNode ==
  \/ \E name \in TypeNames : NewNodeType(name)
  \/ \E name \in TypeNames, context \in Contexts : getResource(name, context)
  \/ \E globalId \in GlobalIds, context \in Contexts, got \in ResourceGetResults :
       NodeResolve(globalId, context, got)

SpecNode == Init /\ [][NextNode]_vars

(***************************************************************************)
(* Claims about createNodeType, checked under SpecNode.                    *)
(***************************************************************************)
\* the calls that got a Resource
ResourceCalls == {c \in 1..Len(nodeCalls) : nodeCalls[c].instance # 0}

\* C19: at most one Resource is constructed per (context, type name); every
\* getResource for a pair returns that one instance, and a call with another
\* context or another type name never returns it.
C19_PerContextResourceCache ==
  /\ \A i, j \in 1..Len(instances) : instances[i] = instances[j] => i = j
  /\ \A c \in ResourceCalls :
       /\ nodeCalls[c].instance \in 1..Len(instances)
       /\ instances[nodeCalls[c].instance] =
            [context |-> nodeCalls[c].context, name |-> nodeCalls[c].type]
  /\ \A c, d \in ResourceCalls :
       (nodeCalls[c].context = nodeCalls[d].context /\ nodeCalls[c].type = nodeCalls[d].type)
         <=> nodeCalls[c].instance = nodeCalls[d].instance

\* three getResource calls: two of one type with one context got the same
\* instance, the third with another context got another one
C19_Witness ==
  \E c, d, f \in 1..Len(nodeCalls) :
    /\ c # d
    /\ nodeCalls[c].op = "getResource" /\ nodeCalls[d].op = "getResource"
    /\ nodeCalls[f].op = "getResource"
    /\ nodeCalls[c].type = nodeCalls[d].type /\ nodeCalls[c].context = nodeCalls[d].context
    /\ nodeCalls[c].instance = nodeCalls[d].instance
    /\ nodeCalls[f].type = nodeCalls[c].type /\ nodeCalls[f].context # nodeCalls[c].context
    /\ nodeCalls[f].instance # nodeCalls[c].instance

\* C20 as stated: the node resolver fails with 'There is no matching type' when
\* no NodeType is registered under the decoded type name; otherwise it returns
\* null whenever the resource's get yields no item, and else the item's fields
\* with $type set to the decoded type name.
C20_NodeLookup ==
  \A c \in 1..Len(nodeCalls) :
    nodeCalls[c].op = "node" =>
      IF ~nodeCalls[c].registered
      THEN nodeCalls[c].result = NodeFailed("There is no matching type")
      ELSE IF nodeCalls[c].got.item \in {"null", "undefined"}
      THEN nodeCalls[c].result = NodeNull
      ELSE nodeCalls[c].result =
             NodeObject(fromGlobalId(nodeCalls[c].globalId).type, nodeCalls[c].got.item)

====
